---- MODULE Spec2Model ----
(***************************************************************************)
(* Model of python/swagger2http.py: the converter from a Swagger 2.0 or    *)
(* OpenAPI 3.x document to a .http request collection.                     *)
(*                                                                         *)
(* Python values are modelled as follows.                                  *)
(*   - a dict read by the program (document, operation, parameter, schema) *)
(*     is a function whose DOMAIN is its key set, so `k in d` is           *)
(*     k \in DOMAIN d and the empty dict is <<>>;                          *)
(*   - a dict whose iteration order matters (`paths`, the methods of a     *)
(*     path, `properties`) is a sequence of <<key, value>> pairs with      *)
(*     distinct keys, in insertion order;                                  *)
(*   - a value produced by the example generators is a tagged record       *)
(*     [k |-> kind, v |-> payload], a produced dict holding its pairs in   *)
(*     insertion order;                                                    *)
(*   - a str is a TLA+ string, except a server url, which is a sequence of *)
(*     atoms ("{", "}", "/" or a run of letters) so that str.format can    *)
(*     scan it;                                                            *)
(*   - a raised exception is the value Raise(kind).                        *)
(***************************************************************************)
EXTENDS Integers, Sequences, FiniteSets, TLC

VARIABLES
    schema,     \* SpecGen: the schema handed to a generator
    called,     \* SpecGen: which generator ran ("none" before the call)
    result,     \* SpecGen: what the generator returned
    swagger,    \* Spec: the parsed document handed to generate_http
    pc,         \* Spec: position in generate_http / __main__
    base_url,   \* Spec: local base_url of generate_http
    pos,        \* Spec: index of the (path, key) entry the loops are at
    endpoints,  \* Spec: local list `endpoints` (joined request blocks)
    built,      \* Spec: the locals of each appended block, in append order
    file,       \* Spec: the output file: [opened |-> BOOLEAN, content |-> STRING]
    raised,     \* Spec: the exception that left generate_http ("" when none)
    printed     \* Spec: the message printed at the end of the run

vars == <<schema, called, result, swagger, pc, base_url, pos, endpoints, built, file, raised, printed>>

genVars == <<schema, called, result>>
httpVars == <<swagger, pc, base_url, pos, endpoints, built, file, raised, printed>>

(***************************************************************************)
(* Bounds of the input sets.                                               *)
(***************************************************************************)
MaxNodes == 2       \* schema nodes in a schema handed to a generator
MaxParams == 2      \* parameters of an operation
MaxMethods == 2     \* keys under one path of a many-operation document
MaxPaths == 1       \* paths of a many-operation document
MaxUrlLen == 4      \* atoms of a server url

(***************************************************************************)
(* Python dict and list helpers.                                           *)
(***************************************************************************)
Has(d, key) == key \in DOMAIN d

Get(d, key, default) == IF key \in DOMAIN d THEN d[key] ELSE default

Put(d, key, value) == (key :> value) @@ d

RECURSIVE Join(_, _)
Join(sep, strs) ==
    IF Len(strs) = 0 THEN ""
    ELSE IF Len(strs) = 1 THEN strs[1]
    ELSE strs[1] \o sep \o Join(sep, Tail(strs))

(***************************************************************************)
(* Values produced by the generators.                                      *)
(***************************************************************************)
PyStr(s) == [k |-> "str", v |-> s]
PyInt(n) == [k |-> "int", v |-> n]
PyBool(b) == [k |-> "bool", v |-> b]
PyList(items) == [k |-> "list", v |-> items]
PyDict(pairs) == [k |-> "dict", v |-> pairs]

RefPlaceholder(ref) == PyDict(<< <<"$ref", PyStr(ref)>> >>)

(***************************************************************************)
(* generate_example: the example-first generator.                          *)
(***************************************************************************)
RECURSIVE generate_example(_)
RECURSIVE ExampleProps(_)

\* One iteration of the property loop: the pairs added to `example` for (prop, details).
ExampleProp(prop, details) ==
    IF Has(details, "example") THEN << <<prop, details["example"]>> >>
    ELSE IF Get(details, "type", "None") = "string" THEN << <<prop, PyStr("string")>> >>
    ELSE IF Get(details, "type", "None") = "integer" THEN << <<prop, PyInt(0)>> >>
    ELSE IF Get(details, "type", "None") = "boolean" THEN << <<prop, PyBool(TRUE)>> >>
    ELSE IF Get(details, "type", "None") = "array" /\ Has(details, "items")
        THEN << <<prop, PyList(<<generate_example(details["items"])>>)>> >>
    ELSE IF Has(details, "$ref") THEN << <<prop, RefPlaceholder(details["$ref"])>> >>
    ELSE <<>>

ExampleProps(props) ==
    IF props = <<>> THEN <<>>
    ELSE ExampleProp(props[1][1], props[1][2]) \o ExampleProps(Tail(props))

\* Faulty variant: the top-level `example` is honoured only by a node without `properties`.
generate_example_PropertiesFirst(s) ==
    IF Has(s, "example") /\ ~Has(s, "properties") THEN s["example"]
    ELSE PyDict(ExampleProps(Get(s, "properties", <<>>)))

generate_example(s) ==
    IF Has(s, "example") THEN s["example"]
    ELSE PyDict(ExampleProps(Get(s, "properties", <<>>)))

(***************************************************************************)
(* generate_default_body: the name-hinted generator.                       *)
(***************************************************************************)
RECURSIVE generate_default_body(_)
RECURSIVE DefaultProps(_)

DefaultProp(prop_name, prop_schema) ==
    IF Has(prop_schema, "example") THEN << <<prop_name, prop_schema["example"]>> >>
    ELSE LET prop_type == Get(prop_schema, "type", "string") IN
        IF prop_type = "string" THEN << <<prop_name, PyStr("example_" \o prop_name)>> >>
        ELSE IF prop_type = "integer" THEN << <<prop_name, PyInt(0)>> >>
        ELSE IF prop_type = "boolean" THEN << <<prop_name, PyBool(TRUE)>> >>
        ELSE IF prop_type = "array"
            THEN << <<prop_name, PyList(<<generate_default_body(Get(prop_schema, "items", <<>>))>>)>> >>
        ELSE IF prop_type = "object" THEN << <<prop_name, generate_default_body(prop_schema)>> >>
        ELSE <<>>

DefaultProps(props) ==
    IF props = <<>> THEN <<>>
    ELSE DefaultProp(props[1][1], props[1][2]) \o DefaultProps(Tail(props))

generate_default_body(s) ==
    IF DOMAIN s = {} THEN PyDict(<< <<"key", PyStr("value")>> >>)
    ELSE IF Has(s, "$ref") THEN RefPlaceholder(s["$ref"])
    ELSE LET schema_type == Get(s, "type", "object") IN
        IF schema_type = "object" THEN PyDict(DefaultProps(Get(s, "properties", <<>>)))
        ELSE IF schema_type = "array" THEN PyList(<<generate_default_body(Get(s, "items", <<>>))>>)
        ELSE PyDict(<<>>)

(***************************************************************************)
(* The schemas handed to the generators: every schema of at most MaxNodes  *)
(* nodes. A node has any `type` (or none), with or without `example`, with *)
(* or without `$ref`, and has no children, or `properties` (possibly       *)
(* empty, named in order from PropNames), or `items`.                      *)
(***************************************************************************)
Types == {"string", "integer", "number", "boolean", "array", "object"}

ExampleValue == PyStr("given")

RefString == "#/definitions/Pet"

PropNames == <<"name", "id", "tags", "owner", "extra">>

TypeDicts == {<<>>} \cup {[type |-> t] : t \in Types}

Attrs ==
    UNION {{d, Put(d, "example", ExampleValue), Put(d, "$ref", RefString),
            Put(Put(d, "example", ExampleValue), "$ref", RefString)} : d \in TypeDicts}

RECURSIVE Size(_)
RECURSIVE SizeAll(_)
SizeAll(props) == IF props = <<>> THEN 0 ELSE Size(props[1][2]) + SizeAll(Tail(props))

Size(s) ==
    1 + (IF Has(s, "items") THEN Size(s["items"]) ELSE 0)
      + (IF Has(s, "properties") THEN SizeAll(s["properties"]) ELSE 0)

RECURSIVE Tree(_)
RECURSIVE PropLists(_, _)
PropLists(j, m) ==
    {<<>>} \cup
    UNION {{<< <<PropNames[j], c>> >> \o rest : rest \in PropLists(j + 1, m - Size(c))}
           : c \in Tree(m)}

Tree(n) ==
    IF n <= 0 THEN {}
    ELSE Attrs
         \cup {Put(a, "properties", ps) : a \in Attrs, ps \in PropLists(1, n - 1)}
         \cup {Put(a, "items", c) : a \in Attrs, c \in Tree(n - 1)}

(***************************************************************************)
(* SpecGen: a schema is drawn and one of the two generators is applied.    *)
(***************************************************************************)
\* The output path before the run: never opened, holding what an earlier run left.
PreviousFile == [opened |-> FALSE, content |-> "@baseUrl = http://old\n"]

NothingPrinted == [msg |-> "none", count |-> 0, detail |-> ""]

HttpIdle ==
    /\ swagger = <<>>
    /\ pc = "idle"
    /\ base_url = ""
    /\ pos = 0
    /\ endpoints = <<>>
    /\ built = <<>>
    /\ file = PreviousFile
    /\ raised = ""
    /\ printed = NothingPrinted

InitGen ==
    /\ \/ schema \in Attrs
       \/ \E a \in Attrs, ps \in PropLists(1, MaxNodes - 1) : schema = Put(a, "properties", ps)
       \/ \E a \in Attrs, c \in Tree(MaxNodes - 1) : schema = Put(a, "items", c)
    /\ called = "none"
    /\ result = PyDict(<<>>)
    /\ HttpIdle

CallGenerateExample ==
    /\ called = "none"
    /\ called' = "generate_example"
    /\ result' = generate_example(schema)
    /\ UNCHANGED <<schema, httpVars>>

CallGenerateDefaultBody ==
    /\ called = "none"
    /\ called' = "generate_default_body"
    /\ result' = generate_default_body(schema)
    /\ UNCHANGED <<schema, httpVars>>

NextGen == CallGenerateExample \/ CallGenerateDefaultBody

SpecGen == InitGen /\ [][NextGen]_vars

(***************************************************************************)
(* get_base_url. A server url is a sequence of atoms; str.format scans it  *)
(* left to right: "{{" and "}}" are escaped braces, "{" opens a            *)
(* replacement field that runs to the next "}", a field whose name is not  *)
(* a keyword argument raises KeyError, an empty field raises IndexError    *)
(* (no positional arguments), a single brace raises ValueError.            *)
(***************************************************************************)
Ok(out) == [err |-> "", out |-> out]
Raise(kind) == [err |-> kind, out |-> <<>>]

FormatArgs == [protocol |-> <<"http">>, host |-> <<"localhost">>, basePath |-> <<>>]

\* The index of the first "}" of u at or after position j, 0 when there is none.
RECURSIVE FindClose(_, _)
FindClose(u, j) ==
    IF j > Len(u) THEN 0 ELSE IF u[j] = "}" THEN j ELSE FindClose(u, j + 1)

RECURSIVE Format(_)
Format(u) ==
    IF u = <<>> THEN Ok(<<>>)
    ELSE IF u[1] = "{" THEN
        IF Len(u) >= 2 /\ u[2] = "{" THEN
            LET rest == Format(SubSeq(u, 3, Len(u))) IN
            IF rest.err # "" THEN rest ELSE Ok(<<"{">> \o rest.out)
        ELSE LET close == FindClose(u, 2) IN
            IF close = 0 THEN Raise("ValueError")
            ELSE LET field == SubSeq(u, 2, close - 1) IN
                IF \E j \in 1..Len(field) : field[j] = "{" THEN Raise("ValueError")
                ELSE IF field = <<>> THEN Raise("IndexError")
                ELSE IF Len(field) = 1 /\ field[1] \in DOMAIN FormatArgs THEN
                    LET rest == Format(SubSeq(u, close + 1, Len(u))) IN
                    IF rest.err # "" THEN rest ELSE Ok(FormatArgs[field[1]] \o rest.out)
                ELSE Raise("KeyError")
    ELSE IF u[1] = "}" THEN
        IF Len(u) >= 2 /\ u[2] = "}" THEN
            LET rest == Format(SubSeq(u, 3, Len(u))) IN
            IF rest.err # "" THEN rest ELSE Ok(<<"}">> \o rest.out)
        ELSE Raise("ValueError")
    ELSE LET rest == Format(Tail(u)) IN
        IF rest.err # "" THEN rest ELSE Ok(<<u[1]>> \o rest.out)

RECURSIVE RStripSlash(_)
RStripSlash(u) ==
    IF u # <<>> /\ u[Len(u)] = "/" THEN RStripSlash(SubSeq(u, 1, Len(u) - 1)) ELSE u

get_base_url(doc) ==
    IF Has(doc, "servers") THEN
        IF doc["servers"] = <<>> THEN Raise("IndexError")
        ELSE IF ~Has(doc["servers"][1], "url") THEN Raise("KeyError")
        ELSE LET server_url == doc["servers"][1]["url"] IN
            IF \E j \in 1..Len(server_url) : server_url[j] = "{" THEN
                LET formatted == Format(server_url) IN
                IF formatted.err # "" THEN formatted ELSE Ok(RStripSlash(formatted.out))
            ELSE Ok(RStripSlash(server_url))
    ELSE IF Get(doc, "schemes", <<"http">>) = <<>> THEN Raise("IndexError")
    ELSE LET scheme == Get(doc, "schemes", <<"http">>)[1]
             host == Get(doc, "host", "localhost")
             base_path == Get(doc, "basePath", <<>>)
         IN Ok(RStripSlash(<<scheme, "://", host>> \o base_path))

(***************************************************************************)
(* json.dumps(value, indent=2).                                            *)
(***************************************************************************)
RECURSIVE Spaces(_)
Spaces(n) == IF n = 0 THEN "" ELSE " " \o Spaces(n - 1)

RECURSIVE dumps(_, _)
dumps(value, level) ==
    CASE value.k = "str" -> "\"" \o value.v \o "\""
      [] value.k = "int" -> ToString(value.v)
      [] value.k = "bool" -> (IF value.v THEN "true" ELSE "false")
      [] value.k = "list" ->
            IF Len(value.v) = 0 THEN "[]"
            ELSE "[\n"
                 \o Join(",\n", [j \in 1..Len(value.v) |->
                        Spaces(2 * (level + 1)) \o dumps(value.v[j], level + 1)])
                 \o "\n" \o Spaces(2 * level) \o "]"
      [] value.k = "dict" ->
            IF Len(value.v) = 0 THEN "{}"
            ELSE "{\n"
                 \o Join(",\n", [j \in 1..Len(value.v) |->
                        Spaces(2 * (level + 1)) \o "\"" \o value.v[j][1] \o "\": "
                        \o dumps(value.v[j][2], level + 1)])
                 \o "\n" \o Spaces(2 * level) \o "}"

(***************************************************************************)
(* generate_http: the body of the loop over (path, method) entries.        *)
(***************************************************************************)
HttpMethods == {"get", "post", "put", "delete", "patch", "head", "options"}

\* str.lower and str.upper on the keys the documents use.
LowerOf == [GET |-> "get", POST |-> "post", Get |-> "get", Trace |-> "trace"]
UpperOf == [get |-> "GET", post |-> "POST", put |-> "PUT", delete |-> "DELETE",
            patch |-> "PATCH", head |-> "HEAD", options |-> "OPTIONS"]

lower(s) == IF s \in DOMAIN LowerOf THEN LowerOf[s] ELSE s
upper(s) == IF s \in DOMAIN UpperOf THEN UpperOf[s] ELSE s

\* Faulty variant: the key is compared without lower-casing it.
IsMethod_CaseSensitive(key) == key \in HttpMethods

IsMethod(key) == lower(key) \in HttpMethods

\* f"{param['name']}={{{param['name']}}}": "{{" and "}}" are one literal brace each.
QueryPair(name) == name \o "=" \o "{" \o name \o "}"

\* f"{param['name']}: {{{param['name']}}}"
HeaderLine(name) == name \o ": " \o "{" \o name \o "}"

\* path.replace(f"{{{name}}}", f"{{{name}}}"): both arguments are "{name}".
ReplacePathParam(path, name) == path

\* The parameter loop: the locals params, headers and path after it, or the KeyError
\* of the first parameter that lacks `in`, or lacks `name` where the name is read.
RECURSIVE CollectParams(_, _)
CollectParams(parameters, acc) ==
    IF parameters = <<>> THEN acc
    ELSE LET param == parameters[1] IN
        IF ~Has(param, "in") THEN [acc EXCEPT !.err = "KeyError"]
        ELSE IF param["in"] \in {"query", "header", "path"} /\ ~Has(param, "name")
            THEN [acc EXCEPT !.err = "KeyError"]
        ELSE IF param["in"] = "query" THEN
            CollectParams(Tail(parameters),
                          [acc EXCEPT !.params = Append(@, QueryPair(param["name"]))])
        ELSE IF param["in"] = "header" THEN
            CollectParams(Tail(parameters),
                          [acc EXCEPT !.headers = Append(@, HeaderLine(param["name"]))])
        ELSE IF param["in"] = "path" THEN
            CollectParams(Tail(parameters),
                          [acc EXCEPT !.path = ReplacePathParam(@, param["name"])])
        ELSE CollectParams(Tail(parameters), acc)

ContentTypeHeader == "Content-Type: application/json"
AuthorizationHeader == "Authorization: Bearer {{token}}"

\* Faulty variant: only the operation's own `security` is looked at.
NeedsAuthorization_OperationOnly(doc, spec) == Has(spec, "security")

NeedsAuthorization(doc, spec) == Has(spec, "security") \/ Has(doc, "security")

InitialHeaders(doc, spec) ==
    <<ContentTypeHeader>>
    \o (IF NeedsAuthorization(doc, spec) THEN <<AuthorizationHeader>> ELSE <<>>)

\* next(p for p in parameters if p['in'] == 'body')
BodyParam(parameters) ==
    parameters[CHOOSE j \in 1..Len(parameters) :
                  /\ parameters[j]["in"] = "body"
                  /\ \A h \in 1..(j - 1) : parameters[h]["in"] # "body"]

\* Faulty variant: `if` in place of `elif`, so an operation whose requestBody has no
\* application/json entry falls through to its body parameter.
RequestBody_FallsThrough(spec) ==
    LET parameters == Get(spec, "parameters", <<>>) IN
    IF Has(spec, "requestBody") /\ Has(Get(spec["requestBody"], "content", <<>>), "application/json")
        THEN dumps(generate_default_body(
                 Get(spec["requestBody"]["content"]["application/json"], "schema", <<>>)), 0)
    ELSE IF \E j \in 1..Len(parameters) : parameters[j]["in"] = "body"
        THEN dumps(generate_example(Get(BodyParam(parameters), "schema", <<>>)), 0)
        ELSE ""

\* The local `body` after the request-body step (reached only when the parameter
\* loop raised nothing, so every parameter has `in`).
RequestBody(spec) ==
    IF Has(spec, "requestBody") THEN
        LET content == Get(spec["requestBody"], "content", <<>>) IN
        IF Has(content, "application/json")
            THEN dumps(generate_default_body(Get(content["application/json"], "schema", <<>>)), 0)
            ELSE ""
    ELSE LET parameters == Get(spec, "parameters", <<>>) IN
        IF \E j \in 1..Len(parameters) : parameters[j]["in"] = "body"
            THEN dumps(generate_example(Get(BodyParam(parameters), "schema", <<>>)), 0)
            ELSE ""

RequestUrl(path, params) ==
    "{{baseUrl}}" \o path \o (IF params # <<>> THEN "?" \o Join("&", params) ELSE "")

\* One pass of the loop body for an entry whose key is an HTTP method: the locals at
\* the append (err = ""), or the exception raised on the way.
BuildRequest(doc, path0, key, spec) ==
    LET method == lower(key)
        title == "### " \o Get(spec, "summary", upper(method) \o " " \o path0)
        comment == IF Has(spec, "description") THEN <<"# " \o spec["description"]>> ELSE <<>>
        collected == CollectParams(Get(spec, "parameters", <<>>),
                                   [err |-> "", params |-> <<>>,
                                    headers |-> InitialHeaders(doc, spec), path |-> path0])
    IN  IF collected.err # "" THEN [err |-> collected.err]
        ELSE LET body == RequestBody(spec)
                 url == RequestUrl(collected.path, collected.params)
                 request == <<title>> \o comment
                            \o <<upper(method) \o " " \o url, Join("\n", collected.headers)>>
                            \o (IF body # "" THEN <<"\n" \o body>> ELSE <<>>)
             IN [err |-> "", path |-> path0, key |-> key, method |-> method, spec |-> spec,
                 params |-> collected.params, headers |-> collected.headers,
                 body |-> body, url |-> url, request |-> request,
                 text |-> Join("\n", request)]

\* swagger.get('paths', {}).items() crossed with methods.items(), in iteration order.
RECURSIVE Entries(_)
Entries(paths) ==
    IF paths = <<>> THEN <<>>
    ELSE [j \in 1..Len(paths[1][2]) |->
             [path |-> paths[1][1], key |-> paths[1][2][j][1], spec |-> paths[1][2][j][2]]]
         \o Entries(Tail(paths))

DocEntries(doc) == Entries(Get(doc, "paths", <<>>))

FileText(url, blocks) ==
    "@baseUrl = " \o Join("", url) \o "\n" \o "@token = <your_token>\n\n" \o Join("\n\n", blocks)

(***************************************************************************)
(* The documents handed to generate_http.                                  *)
(***************************************************************************)
Opt(d, present, key, value) == IF present THEN Put(d, key, value) ELSE d

SeqsUpTo(S, n) == UNION {[1..m -> S] : m \in 0..n}

Param(in, name) == ("in" :> in) @@ ("name" :> name)

NameSchema == [type |-> "object", properties |-> << <<"name", [type |-> "string"]>> >>]

BodySchemas == {<<>>, NameSchema, Put(NameSchema, "example", ExampleValue)}

ParamChoices ==
    {Param("query", "page"), Param("query", "limit"), Param("header", "X-Trace"),
     Param("path", "id"), [name |-> "q"], ("in" :> "query")}
    \cup {Put(Param("body", "body"), "schema", s) : s \in BodySchemas}

RequestBodies ==
    {<<>>, [content |-> ("text/plain" :> <<>>)], [content |-> ("application/json" :> <<>>)]}
    \cup {[content |-> ("application/json" :> [schema |-> s])] : s \in BodySchemas}

SecurityValue == <<"bearerAuth">>

Operation(secured, described, parameters, hasBody, requestBody) ==
    Opt(Opt(Opt(Opt(Opt(<<>>,
        secured, "security", SecurityValue),
        described, "summary", "List pets"),
        described, "description", "Returns the pets"),
        parameters # <<>>, "parameters", parameters),
        hasBody, "requestBody", requestBody)

PathNames == <<"/pets", "/pets/{id}", "/users", "/orders">>

\* Family 1: one path with one operation, the operation drawn in full.
OneOperationDoc(docSecured, key, op) ==
    Opt([paths |-> << <<PathNames[2], << <<key, op>> >> >> >>], docSecured, "security", SecurityValue)

\* Family 2: up to MaxPaths paths with up to MaxMethods keys each, the operations few.
FewOperations ==
    {<<>>,
     Operation(TRUE, TRUE, <<Param("query", "page")>>, TRUE, [content |-> ("application/json" :> [schema |-> NameSchema])]),
     Operation(FALSE, FALSE, <<[name |-> "q"]>>, FALSE, <<>>)}

EntryChoices ==
    {<<key, op>> : key \in {"get", "POST"}, op \in FewOperations} \cup {<<"parameters", <<>>>>}

MethodMaps ==
    {m \in SeqsUpTo(EntryChoices, MaxMethods) :
        \A j, h \in 1..Len(m) : j # h => m[j][1] # m[h][1]}

\* Family 3: one plain operation, the base-url keys drawn in full.
UrlAtoms == {"{", "}", "/", "host", "env"}

PlainPaths == << <<PathNames[1], << <<"get", <<>>>> >> >> >>

InitHttp ==
    /\ \/ \E docSecured, secured, described, hasBody \in BOOLEAN :
          \E parameters \in SeqsUpTo(ParamChoices, MaxParams), requestBody \in RequestBodies :
             /\ (~hasBody => requestBody = <<>>)
             /\ swagger = OneOperationDoc(docSecured, "POST",
                              Operation(secured, described, parameters, hasBody, requestBody))
       \/ \E docSecured \in BOOLEAN, n \in 0..MaxPaths :
          \E ms \in [1..n -> MethodMaps] :
             swagger = Opt([paths |-> [j \in 1..n |-> <<PathNames[j], ms[j]>>]],
                           docSecured, "security", SecurityValue)
       \/ swagger = [host |-> "api.example.com"]
       \/ \E url \in SeqsUpTo(UrlAtoms, MaxUrlLen) :
             swagger = [servers |-> <<[url |-> <<"https://">> \o url]>>, paths |-> PlainPaths]
       \/ swagger \in {[servers |-> <<>>, paths |-> PlainPaths],
                       [servers |-> <<[description |-> "prod"]>>, paths |-> PlainPaths]}
       \/ \E schemes \in {<<>>, <<"https">>}, hasSchemes, hasHost, hasBasePath \in BOOLEAN :
          \E basePath \in {<<"/">>, <<"/", "v1">>, <<"/", "v1", "/">>} :
             swagger = Opt(Opt(Opt([paths |-> PlainPaths],
                           hasSchemes, "schemes", schemes),
                           hasHost, "host", "api.example.com"),
                           hasBasePath, "basePath", basePath)
    /\ pc = "import"
    /\ base_url = <<>>
    /\ pos = 0
    /\ endpoints = <<>>
    /\ built = <<>>
    /\ file = PreviousFile
    /\ raised = ""
    /\ printed = NothingPrinted
    /\ schema = <<>>
    /\ called = "none"
    /\ result = PyDict(<<>>)

(***************************************************************************)
(* generate_http and the handlers of __main__, one action per step.        *)
(***************************************************************************)
\* The module body runs before __main__. The signature of generate_default_body
\* names Dict and Any, which the module never imports: an interpreter that evaluates
\* annotations at the def (before Python 3.14) raises NameError there, outside the
\* try of __main__; one that defers them goes on to load_swagger and generate_http.
ImportModule ==
    /\ pc = "import"
    /\ \/ pc' = "start" /\ raised' = raised
       \/ pc' = "crashed" /\ raised' = "NameError"
    /\ UNCHANGED <<swagger, base_url, pos, endpoints, built, file, printed, genVars>>

\* Faulty variant: the output file is opened (and so truncated) before the blocks are built.
ResolveBaseUrl_OpensFile ==
    /\ pc = "start"
    /\ file' = [opened |-> TRUE, content |-> ""]
    /\ LET r == get_base_url(swagger) IN
        IF r.err = ""
            THEN /\ base_url' = r.out
                 /\ pos' = 1
                 /\ pc' = "loop"
                 /\ raised' = raised
            ELSE /\ raised' = r.err
                 /\ pc' = "raised"
                 /\ UNCHANGED <<base_url, pos>>
    /\ UNCHANGED <<swagger, endpoints, built, printed, genVars>>

\* base_url = get_base_url(swagger); endpoints = []
ResolveBaseUrl ==
    /\ pc = "start"
    /\ LET r == get_base_url(swagger) IN
        IF r.err = ""
            THEN /\ base_url' = r.out
                 /\ pos' = 1
                 /\ pc' = "loop"
                 /\ raised' = raised
            ELSE /\ raised' = r.err
                 /\ pc' = "raised"
                 /\ UNCHANGED <<base_url, pos>>
    /\ UNCHANGED <<swagger, endpoints, built, file, printed, genVars>>

\* An entry whose lower-cased key is no HTTP method: continue.
SkipKey ==
    /\ pc = "loop"
    /\ pos <= Len(DocEntries(swagger))
    /\ ~IsMethod(DocEntries(swagger)[pos].key)
    /\ pos' = pos + 1
    /\ UNCHANGED <<swagger, pc, base_url, endpoints, built, file, raised, printed, genVars>>

\* An entry whose key is an HTTP method: build the block and append it, or raise.
BuildBlock ==
    /\ pc = "loop"
    /\ pos <= Len(DocEntries(swagger))
    /\ IsMethod(DocEntries(swagger)[pos].key)
    /\ LET e == DocEntries(swagger)[pos]
           r == BuildRequest(swagger, e.path, e.key, e.spec)
       IN IF r.err = ""
            THEN /\ endpoints' = Append(endpoints, r.text)
                 /\ built' = Append(built, r)
                 /\ pos' = pos + 1
                 /\ UNCHANGED <<pc, raised>>
            ELSE /\ raised' = r.err
                 /\ pc' = "raised"
                 /\ UNCHANGED <<endpoints, built, pos>>
    /\ UNCHANGED <<swagger, base_url, file, printed, genVars>>

\* with open(output_file, 'w') as f: the three writes.
WriteFile ==
    /\ pc = "loop"
    /\ pos > Len(DocEntries(swagger))
    /\ file' = [opened |-> TRUE, content |-> FileText(base_url, endpoints)]
    /\ pc' = "written"
    /\ UNCHANGED <<swagger, base_url, pos, endpoints, built, raised, printed, genVars>>

\* print(success message with len(endpoints))
PrintSuccess ==
    /\ pc = "written"
    /\ printed' = [msg |-> "success", count |-> Len(endpoints), detail |-> ""]
    /\ pc' = "exit"
    /\ UNCHANGED <<swagger, base_url, pos, endpoints, built, file, raised, genVars>>

\* except Exception as e: print(error message)
HandleError ==
    /\ pc = "raised"
    /\ printed' = [msg |-> "error", count |-> 0, detail |-> raised]
    /\ pc' = "exit"
    /\ UNCHANGED <<swagger, base_url, pos, endpoints, built, file, raised, genVars>>

Next == ImportModule \/ ResolveBaseUrl \/ SkipKey \/ BuildBlock \/ WriteFile \/ PrintSuccess \/ HandleError

Spec == InitHttp /\ [][Next]_vars

(***************************************************************************)
(* Helpers of the properties below.                                        *)
(***************************************************************************)
Missing == [k |-> "missing", v |-> ""]

\* The value a produced mapping holds under `key`, Missing when it has no such key.
ValueAt(value, key) ==
    IF value.k # "dict" THEN Missing
    ELSE LET at == {j \in 1..Len(value.v) : value.v[j][1] = key} IN
         IF at = {} THEN Missing ELSE value.v[CHOOSE j \in at : TRUE][2]

KeySet(value) == IF value.k # "dict" THEN {"<not a mapping>"} ELSE {value.v[j][1] : j \in 1..Len(value.v)}

Props(s) == Get(s, "properties", <<>>)

\* The node is rendered by walking its properties: an object (or untyped) node with
\* neither `example` nor `$ref` of its own.
WalksProperties(s) ==
    /\ ~Has(s, "example")
    /\ ~Has(s, "$ref")
    /\ Get(s, "type", "object") = "object"

Generated == called # "none"

(***************************************************************************)
(* C1. In both generators a node that carries `$ref`, at the top level or  *)
(* as a property, is rendered as the mapping {"$ref": <ref string>} and as *)
(* nothing else.                                                           *)
(***************************************************************************)
C1_RefRenderedAsPlaceholder ==
    Generated =>
        /\ Has(schema, "$ref") => result = RefPlaceholder(schema["$ref"])
        /\ WalksProperties(schema) =>
              \A j \in 1..Len(Props(schema)) :
                  Has(Props(schema)[j][2], "$ref") =>
                      ValueAt(result, Props(schema)[j][1]) = RefPlaceholder(Props(schema)[j][2]["$ref"])

(***************************************************************************)
(* C2. For an object (or untyped) node that declares N properties and has  *)
(* no top-level `example`, the mapping either generator returns has        *)
(* exactly the N declared property names as its key set.                   *)
(***************************************************************************)
C2_KeySetIsDeclaredProperties ==
    (Generated /\ WalksProperties(schema) /\ Has(schema, "properties")) =>
        KeySet(result) = {Props(schema)[j][1] : j \in 1..Len(Props(schema))}

(***************************************************************************)
(* C3. For a node of type `array`, at the top level or as a property, with *)
(* or without `items`, the example either generator produces for the node *)
(* is a sequence of exactly one element.                                   *)
(***************************************************************************)
IsOneElementList(value) == value.k = "list" /\ Len(value.v) = 1

PlainArray(s) == Get(s, "type", "None") = "array" /\ ~Has(s, "example") /\ ~Has(s, "$ref")

C3_ArrayIsOneElementSequence ==
    Generated =>
        /\ PlainArray(schema) => IsOneElementList(result)
        /\ WalksProperties(schema) =>
              \A j \in 1..Len(Props(schema)) :
                  PlainArray(Props(schema)[j][2]) =>
                      IsOneElementList(ValueAt(result, Props(schema)[j][1]))

(***************************************************************************)
(* C8. For a schema node that has an `example` key, generate_example       *)
(* returns that example value unchanged, whatever the node's `type`,       *)
(* `properties`, `items` or `$ref` are.                                    *)
(***************************************************************************)
C8_ExampleReturnedVerbatim ==
    (called = "generate_example" /\ Has(schema, "example")) => result = schema["example"]

\* An `example` node that also has a `$ref` and a typed property was generated.
C8_Witness ==
    /\ called = "generate_example"
    /\ Has(schema, "example")
    /\ Has(schema, "$ref")
    /\ Props(schema) # <<>>
    /\ Has(Props(schema)[1][2], "type")
    /\ result = ExampleValue

(***************************************************************************)
(* Helpers of the properties of generate_http.                             *)
(***************************************************************************)
Blocks == 1..Len(built)

ParametersOf(spec) == Get(spec, "parameters", <<>>)

\* The names of the `in: query` parameters, in parameter order.
RECURSIVE QueryNames(_)
QueryNames(parameters) ==
    IF parameters = <<>> THEN <<>>
    ELSE (IF parameters[1]["in"] = "query" THEN <<parameters[1]["name"]>> ELSE <<>>)
         \o QueryNames(Tail(parameters))

\* The (path, key) entries whose lower-cased key is an HTTP method, in order.
RECURSIVE MethodEntries(_)
MethodEntries(entries) ==
    IF entries = <<>> THEN <<>>
    ELSE (IF lower(entries[1].key) \in {"get", "post", "put", "delete", "patch", "head", "options"}
            THEN <<entries[1]>> ELSE <<>>)
         \o MethodEntries(Tail(entries))

HasJsonRequestBody(spec) ==
    /\ Has(spec, "requestBody")
    /\ Has(spec["requestBody"], "content")
    /\ Has(spec["requestBody"]["content"], "application/json")

JsonSchema(spec) == Get(spec["requestBody"]["content"]["application/json"], "schema", <<>>)

HasBodyParameter(spec) ==
    \E j \in 1..Len(ParametersOf(spec)) : ParametersOf(spec)[j]["in"] = "body"

BodyParameterSchema(spec) == Get(BodyParam(ParametersOf(spec)), "schema", <<>>)

\* The block has a body section: a last element that is a blank line and the body.
HasBodySection(b) == b.request[Len(b.request)] = "\n" \o b.body /\ b.body # ""

NoBodySection(b) == b.body = "" /\ b.request[Len(b.request)] = Join("\n", b.headers)

(***************************************************************************)
(* C4. The request line's URL of every emitted operation is {{baseUrl}}    *)
(* followed by the path and, when the operation has k >= 1 query           *)
(* parameters, "?" and k pairs name={{name}} in parameter order joined by  *)
(* "&"; with no query parameter nothing is appended.                       *)
(***************************************************************************)
C4_QueryPairsDoubleBraced ==
    \A j \in Blocks :
        LET names == QueryNames(ParametersOf(built[j].spec))
            pairs == [h \in 1..Len(names) |-> names[h] \o "={{" \o names[h] \o "}}"]
        IN built[j].url = "{{baseUrl}}" \o built[j].path
                          \o (IF names = <<>> THEN "" ELSE "?" \o Join("&", pairs))

(***************************************************************************)
(* C5. For a document whose first server url holds a {name} placeholder    *)
(* outside protocol, host and basePath, get_base_url does not fail: the    *)
(* unknown placeholder stays as the literal {name} token and the trailing  *)
(* slash is stripped.                                                      *)
(***************************************************************************)
\* The url holds exactly one replacement field, {name} with an unknown name, and no
\* other brace.
OnlyUnknownField(u) ==
    \E j \in 1..(Len(u) - 2) :
        /\ u[j] = "{"
        /\ u[j + 1] \notin {"{", "}", "/"} \cup DOMAIN FormatArgs
        /\ u[j + 2] = "}"
        /\ \A h \in (1..Len(u)) \ {j, j + 2} : u[h] \notin {"{", "}"}

ServerUrlGiven ==
    /\ Has(swagger, "servers")
    /\ swagger["servers"] # <<>>
    /\ Has(swagger["servers"][1], "url")

C5_UnknownPlaceholderKept ==
    (pc \notin {"import", "start", "crashed"} /\ ServerUrlGiven
        /\ OnlyUnknownField(swagger["servers"][1]["url"])) =>
        /\ raised = ""
        /\ base_url = RStripSlash(swagger["servers"][1]["url"])

(***************************************************************************)
(* C6. The request blocks correspond one-to-one and in order to the        *)
(* (path, key) entries of `paths` whose lower-cased key is an HTTP method; *)
(* any other key produces no block and no failure, and the reported count  *)
(* is the number of such entries.                                          *)
(***************************************************************************)
C6_BlocksFollowMethodEntries ==
    LET entries == DocEntries(swagger)
        expected == MethodEntries(SubSeq(entries, 1, pos - 1))
    IN  /\ Len(built) = Len(expected)
        /\ Len(endpoints) = Len(expected)
        /\ \A j \in Blocks :
              /\ built[j].path = expected[j].path
              /\ built[j].key = expected[j].key
              /\ endpoints[j] = Join("\n", built[j].request)
        /\ (pc = "raised" /\ pos >= 1) =>
              lower(entries[pos].key) \in {"get", "post", "put", "delete", "patch", "head", "options"}
        /\ file.opened =>
              /\ Len(built) = Len(MethodEntries(entries))
              /\ file.content = FileText(base_url, endpoints)
        /\ printed.msg = "success" => printed.count = Len(MethodEntries(entries))

\* A run that finished over a path holding an upper-case method key and a key that
\* is no method.
C6_Witness ==
    /\ printed.msg = "success"
    /\ \E j \in Blocks : built[j].key = "POST"
    /\ \E j \in 1..Len(DocEntries(swagger)) : DocEntries(swagger)[j].key = "parameters"

(***************************************************************************)
(* C7. Every request block has Content-Type: application/json as its first *)
(* header line, and holds Authorization: Bearer {{token}} exactly when the *)
(* operation or the document has a `security` key; it then comes directly  *)
(* after Content-Type, before any header-parameter line.                   *)
(***************************************************************************)
C7_HeaderOrder ==
    \A j \in Blocks :
        LET h == built[j].headers
            secured == "security" \in DOMAIN built[j].spec \/ "security" \in DOMAIN swagger
        IN  /\ h[1] = "Content-Type: application/json"
            /\ secured <=> (\E i \in 1..Len(h) : h[i] = "Authorization: Bearer {{token}}")
            /\ \A i \in 1..Len(h) : h[i] = "Authorization: Bearer {{token}}" => i = 2
            /\ \E i \in 1..Len(built[j].request) : built[j].request[i] = Join("\n", h)

\* A block secured by the document alone, with a header parameter after Authorization.
C7_Witness ==
    \E j \in Blocks :
        /\ ~Has(built[j].spec, "security")
        /\ Has(swagger, "security")
        /\ Len(built[j].headers) = 3
        /\ built[j].headers[2] = AuthorizationHeader

(***************************************************************************)
(* C9 as stated: an operation with a `requestBody` that has an             *)
(* application/json entry gets generate_default_body of that schema; an    *)
(* operation with an `in: body` parameter gets generate_example of that    *)
(* parameter's schema; an operation with neither gets no body section.     *)
(***************************************************************************)
C9_BodyChoiceAsStated ==
    \A j \in Blocks :
        LET spec == built[j].spec IN
        IF HasJsonRequestBody(spec)
            THEN /\ built[j].body = dumps(generate_default_body(JsonSchema(spec)), 0)
                 /\ HasBodySection(built[j])
        ELSE IF HasBodyParameter(spec)
            THEN /\ built[j].body = dumps(generate_example(BodyParameterSchema(spec)), 0)
                 /\ HasBodySection(built[j])
        ELSE NoBodySection(built[j])

(***************************************************************************)
(* C9 amended: an operation with a `requestBody` that has an               *)
(* application/json entry gets generate_default_body of that schema; an    *)
(* operation WITHOUT a `requestBody` key and with an `in: body` parameter  *)
(* gets generate_example of the first such parameter's schema; every other *)
(* operation, one whose `requestBody` has no application/json entry        *)
(* included, gets no body section.                                         *)
(***************************************************************************)
C9_BodyChoice ==
    \A j \in Blocks :
        LET spec == built[j].spec IN
        IF HasJsonRequestBody(spec)
            THEN /\ built[j].body = dumps(generate_default_body(JsonSchema(spec)), 0)
                 /\ HasBodySection(built[j])
        ELSE IF ~Has(spec, "requestBody") /\ HasBodyParameter(spec)
            THEN /\ built[j].body = dumps(generate_example(BodyParameterSchema(spec)), 0)
                 /\ HasBodySection(built[j])
        ELSE NoBodySection(built[j])

\* A block whose operation has a `requestBody` without application/json and a body
\* parameter: built, with no body section.
C9_Witness ==
    \E j \in Blocks :
        /\ Has(built[j].spec, "requestBody")
        /\ ~HasJsonRequestBody(built[j].spec)
        /\ HasBodyParameter(built[j].spec)
        /\ built[j].body = ""

(***************************************************************************)
(* C10. The output file is opened and written only after every request     *)
(* block has been built: in a run where base-url resolution or the         *)
(* building of a block fails, the file is never opened and keeps its       *)
(* previous content, and the blocks buffered so far are discarded.         *)
(***************************************************************************)
C10_FileWrittenOnlyAfterAllBlocks ==
    /\ raised # "" => file = PreviousFile
    /\ file # PreviousFile =>
          /\ raised = ""
          /\ pos > Len(DocEntries(swagger))
          /\ Len(endpoints) = Len(MethodEntries(DocEntries(swagger)))

\* A run that failed on a later block after buffering an earlier one, and ended.
C10_Witness ==
    /\ pc = "exit"
    /\ raised # ""
    /\ endpoints # <<>>
    /\ file = PreviousFile

====
